---- MODULE Spec2Model ----
(***************************************************************************)
(* Knit_Graph (knit_graphs/Knit_Graph.py) and Symbol_Table                 *)
(* (knitspeak_compiler/knitspeak_interpreter/symbol_table.py) as a state   *)
(* machine.  One action per public method; every action is the whole      *)
(* method, including the part that runs before an exception is raised.    *)
(***************************************************************************)
EXTENDS Integers, Sequences, FiniteSets, TLC

VARIABLES
    graph_nodes,    \* self.graph nodes: node id -> its "loop" attribute (NoLoop when the node has none)
    graph_edges,    \* self.graph edges: <<parent, child>> -> [pull_direction, depth, parent_offset]
    loops,          \* self.loops: loop id -> Loop (yarn_id, is_twisted, parent_loops as loop ids)
    last_loop_id,   \* self.last_loop_id
    yarns,          \* self.yarns: yarn id -> the yarn's sequence of <<loop id, is_twisted>>
    symbol_table,   \* Symbol_Table._symbol_table: name -> definition or integer
                    \* (empty while no Symbol_Table has been constructed)
    call,           \* the latest call: its method and arguments
    raised,         \* the exception the latest call ended with, "none" when it returned
    returned,       \* what the latest call returned
    height,         \* height of the swatch being built (0 when no swatch is being built)
    ncalls          \* number of calls made so far

vars == <<graph_nodes, graph_edges, loops, last_loop_id, yarns, symbol_table,
          call, raised, returned, height, ncalls>>

graph_vars == <<graph_nodes, graph_edges, loops, last_loop_id, yarns>>

----------------------------------------------------------------------------
(* Bounds of the model *)

MaxLoopId == 2          \* Spec: loop ids 0..MaxLoopId
MaxCalls == 4           \* Spec: calls per run
MaxConnectLoopId == 2   \* ConnectSpec: loop ids 0..MaxConnectLoopId
MaxConnectCalls == 6    \* ConnectSpec: calls per run
MaxPlainLoopId == 2     \* PlainSpec: loop ids 0..MaxPlainLoopId
MaxPlainCalls == 6      \* PlainSpec: calls per run
MaxCourseLoopId == 4    \* CourseSpec: loop ids 0..MaxCourseLoopId
MaxParents == 2         \* CourseSpec: parents per loop
MaxHeight == 4          \* StSpec: swatch heights 1..MaxHeight
MaxNameLen == 1         \* SymSpec: names of 1..MaxNameLen characters
MaxSymCalls == 3        \* SymSpec: calls per run

LoopIds == 0..MaxLoopId
YarnIds == {"yarn", "yarn2"}
StackPositions == {-1, 0, 1, 2}
\* an Optional[int] argument: <<>> is None, <<k>> is the integer k
NoPosition == <<>>
StackPositionArgs == {NoPosition} \cup { <<k>> : k \in StackPositions }
\* a node that add_edge created has no "loop" attribute
NoLoop == <<>>
None == <<>>
EmptyMap == <<>>

Pull_Direction == {"BtF", "FtB"}

opposite(self) == IF self = "BtF" THEN "FtB" ELSE "BtF"

\* connect_loops called with its default arguments (lines 73-74)
DefaultAttributes == [pull_direction |-> "BtF", depth |-> 0, parent_offset |-> 0]

\* the (pull_direction, depth, parent_offset) triples the calls of the model use
EdgeAttributes ==
    { [pull_direction |-> "BtF", depth |-> 0, parent_offset |-> 0],
      [pull_direction |-> "FtB", depth |-> 1, parent_offset |-> -1] }

----------------------------------------------------------------------------
(* Helpers *)

Range(s) == { s[i] : i \in DOMAIN s }

\* d[k] = v of a Python dict
DictSet(d, k, v) == (k :> v) @@ d

\* a new Loop(loop_id, yarn_id, is_twisted): its parent stack is empty
Loop(loop_id, yarn_id, is_twisted) ==
    [loop_id |-> loop_id, yarn_id |-> yarn_id, is_twisted |-> is_twisted,
     parent_loops |-> <<>>]

\* what a graph node's "loop" attribute shows of the loop
LoopAttr(loop) == <<loop.loop_id, loop.yarn_id, loop.is_twisted>>

\* a new Yarn(yarn_id): no loop is on it
Yarn(yarn_id) == <<>>

\* Yarn.add_loop_to_end
add_loop_to_end(yarn, loop_id, is_twisted) == Append(yarn, <<loop_id, is_twisted>>)

\* list.insert(i, x) of Python: a negative index counts from the end, and an
\* index beyond either end is clamped to that end
ListInsert(lst, i, x) ==
    LET n  == Len(lst)
        j0 == IF i < 0 THEN i + n ELSE i
        j  == IF j0 < 0 THEN 0 ELSE IF j0 > n THEN n ELSE j0
    IN  SubSeq(lst, 1, j) \o <<x>> \o SubSeq(lst, j + 1, n)

\* networkx DiGraph.add_node(n, loop=loop)
AddNode(nodes, n, attr) == DictSet(nodes, n, attr)

\* the nodes networkx DiGraph.add_edge(u, v) creates when they are missing
AddEdgeNodes(nodes, u, v) ==
    [x \in (DOMAIN nodes) \cup {u, v} |-> IF x \in DOMAIN nodes THEN nodes[x] ELSE NoLoop]

----------------------------------------------------------------------------
(* Knit_Graph.get_courses *)

\* CourseChange with the boundary never emitted
CourseChangeNever(parent_loops, i, loop_ids_to_course, course_num) == course_num

\* CourseChange with the boundary emitted for a parent in the course before the
\* running one
RECURSIVE CourseChangeOnPriorCourse(_, _, _, _)
CourseChangeOnPriorCourse(parent_loops, i, loop_ids_to_course, course_num) ==
    IF i > Len(parent_loops) THEN course_num
    ELSE IF /\ parent_loops[i] \in DOMAIN loop_ids_to_course
            /\ loop_ids_to_course[parent_loops[i]] = course_num - 1
         THEN course_num + 1
         ELSE CourseChangeOnPriorCourse(parent_loops, i + 1, loop_ids_to_course, course_num)

\* the for loop over cur_loop.parent_loops, from its i-th parent on: the course
\* number the current loop gets
RECURSIVE CourseChange(_, _, _, _)
CourseChange(parent_loops, i, loop_ids_to_course, course_num) ==
    IF i > Len(parent_loops) THEN course_num
    ELSE IF /\ parent_loops[i] \in DOMAIN loop_ids_to_course
            /\ loop_ids_to_course[parent_loops[i]] = course_num
         THEN course_num + 1
         ELSE CourseChange(parent_loops, i + 1, loop_ids_to_course, course_num)

\* AddToCourse with the loop put at the front of its course's list
AddToCourseAtFront(course_ids_to_loop_id_list, course_num, cur_loop_id) ==
    IF course_num \notin DOMAIN course_ids_to_loop_id_list
    THEN DictSet(course_ids_to_loop_id_list, course_num, <<cur_loop_id>>)
    ELSE DictSet(course_ids_to_loop_id_list, course_num,
                 <<cur_loop_id>> \o course_ids_to_loop_id_list[course_num])

\* the bookkeeping at the end of one iteration of the while loop
AddToCourse(course_ids_to_loop_id_list, course_num, cur_loop_id) ==
    IF course_num \notin DOMAIN course_ids_to_loop_id_list
    THEN DictSet(course_ids_to_loop_id_list, course_num, <<cur_loop_id>>)
    ELSE DictSet(course_ids_to_loop_id_list, course_num,
                 Append(course_ids_to_loop_id_list[course_num], cur_loop_id))

\* NextLoopId stepping over a loop id
NextLoopIdSkips(cur_loop_id) == cur_loop_id + 2

\* cur_loop_id += 1
NextLoopId(cur_loop_id) == cur_loop_id + 1

\* the while loop, from the state of its variables at the top of an iteration
RECURSIVE CourseScan(_, _, _, _, _, _)
CourseScan(ls, loop_ids_to_course, course_ids_to_loop_id_list, course_num, cur_loop_id, n) ==
    IF ~(Cardinality(DOMAIN loop_ids_to_course) < Cardinality(DOMAIN ls))
    THEN [raised |-> "none", loop_ids_to_course |-> loop_ids_to_course,
          course_ids_to_loop_id_list |-> course_ids_to_loop_id_list, iterations |-> n]
    ELSE IF cur_loop_id \notin DOMAIN ls
    THEN [raised |-> "KeyError", loop_ids_to_course |-> loop_ids_to_course,
          course_ids_to_loop_id_list |-> course_ids_to_loop_id_list, iterations |-> n]
    ELSE LET c == CourseChange(ls[cur_loop_id].parent_loops, 1, loop_ids_to_course, course_num)
         IN  CourseScan(ls, DictSet(loop_ids_to_course, cur_loop_id, c),
                        AddToCourse(course_ids_to_loop_id_list, c, cur_loop_id),
                        c, NextLoopId(cur_loop_id), n + 1)

GetCourses(ls) ==
    IF 0 \notin DOMAIN ls
    THEN [raised |-> "none", loop_ids_to_course |-> EmptyMap,
          course_ids_to_loop_id_list |-> EmptyMap, iterations |-> 0]
    ELSE CourseScan(ls, EmptyMap, EmptyMap, 0, 0, 0)

----------------------------------------------------------------------------
(* The methods of Knit_Graph *)

\* the condition of line 59, under which add_loop puts the loop on its yarn
AppendsToYarn(ys, yarn_id) == yarn_id \notin DOMAIN ys

\* self.loops[loop_id] = loop
AddLoopEntry(ls, loop) == DictSet(ls, loop.loop_id, loop)

add_loop(loop_id, yarn_id, is_twisted) ==
    LET loop == Loop(loop_id, yarn_id, is_twisted) IN
    /\ call' = [op |-> "add_loop", loop_id |-> loop_id, yarn_id |-> yarn_id,
                is_twisted |-> is_twisted]
    /\ graph_nodes' = AddNode(graph_nodes, loop_id, LoopAttr(loop))
    /\ IF AppendsToYarn(yarns, yarn_id) /\ yarn_id \notin DOMAIN yarns
       THEN \* self.yarns[yarn_id] of line 60 raises KeyError
            /\ raised' = "KeyError"
            /\ UNCHANGED <<loops, last_loop_id, yarns>>
       ELSE /\ raised' = "none"
            /\ yarns' = IF AppendsToYarn(yarns, yarn_id)
                        THEN DictSet(yarns, yarn_id,
                                     add_loop_to_end(yarns[yarn_id], loop_id, is_twisted))
                        ELSE yarns
            /\ loops' = AddLoopEntry(loops, loop)
            /\ last_loop_id' = loop_id
    /\ returned' = None
    /\ UNCHANGED <<graph_edges>>

add_yarn(yarn_id) ==
    /\ call' = [op |-> "add_yarn", yarn_id |-> yarn_id]
    /\ yarns' = DictSet(yarns, yarn_id, Yarn(yarn_id))
    /\ raised' = "none"
    /\ returned' = None
    /\ UNCHANGED <<graph_nodes, graph_edges, loops, last_loop_id>>

\* InsertParent with the stack position ignored
InsertParentOnTop(parent_loops, stack_position, parent_loop_id) ==
    Append(parent_loops, parent_loop_id)

\* the child's parent stack after lines 98-101
InsertParent(parent_loops, stack_position, parent_loop_id) ==
    IF stack_position # NoPosition
    THEN ListInsert(parent_loops, stack_position[1], parent_loop_id)
    ELSE Append(parent_loops, parent_loop_id)

connect_loops(parent_loop_id, child_loop_id, attributes, stack_position) ==
    /\ call' = [op |-> "connect_loops", parent_loop_id |-> parent_loop_id,
                child_loop_id |-> child_loop_id, attributes |-> attributes,
                stack_position |-> stack_position]
    /\ graph_nodes' = AddEdgeNodes(graph_nodes, parent_loop_id, child_loop_id)
    /\ graph_edges' = DictSet(graph_edges, <<parent_loop_id, child_loop_id>>, attributes)
    /\ IF child_loop_id \notin DOMAIN loops \/ parent_loop_id \notin DOMAIN loops
       THEN \* self.loops[...] of line 96 or 97 raises KeyError
            /\ raised' = "KeyError"
            /\ UNCHANGED loops
       ELSE /\ raised' = "none"
            /\ loops' = [loops EXCEPT ![child_loop_id].parent_loops =
                              InsertParent(@, stack_position, parent_loop_id)]
    /\ returned' = None
    /\ UNCHANGED <<last_loop_id, yarns>>

get_courses ==
    \E r \in {GetCourses(loops)} :
    /\ call' = [op |-> "get_courses"]
    /\ raised' = r.raised
    /\ returned' = IF r.raised = "none"
                   THEN [loop_ids_to_course |-> r.loop_ids_to_course,
                         course_ids_to_loop_id_list |-> r.course_ids_to_loop_id_list,
                         iterations |-> r.iterations]
                   ELSE None
    /\ UNCHANGED graph_vars

\* Knit_Graph.__contains__ for an int item
GraphContains(item) == item \in DOMAIN graph_nodes

----------------------------------------------------------------------------
(* The graph under any sequence of calls *)

GraphInit ==
    /\ graph_nodes = EmptyMap
    /\ graph_edges = EmptyMap
    /\ loops = EmptyMap
    /\ last_loop_id = -1
    /\ yarns = EmptyMap

Init ==
    /\ GraphInit
    /\ symbol_table = EmptyMap
    /\ call = [op |-> "__init__"]
    /\ raised = "none"
    /\ returned = None
    /\ height = 0
    /\ ncalls = 0

Counted == ncalls < MaxCalls /\ ncalls' = ncalls + 1

Next ==
    \/ \E loop_id \in LoopIds, yarn_id \in YarnIds, is_twisted \in BOOLEAN :
          /\ Counted
          /\ add_loop(loop_id, yarn_id, is_twisted)
          /\ UNCHANGED <<symbol_table, height>>
    \/ \E yarn_id \in YarnIds :
          /\ Counted
          /\ add_yarn(yarn_id)
          /\ UNCHANGED <<symbol_table, height>>
    \/ \E p \in LoopIds, c \in LoopIds, a \in EdgeAttributes,
          k \in StackPositionArgs :
          /\ Counted
          /\ connect_loops(p, c, a, k)
          /\ UNCHANGED <<symbol_table, height>>
    \/ /\ Counted
       /\ get_courses
       /\ UNCHANGED <<symbol_table, height>>

Spec == Init /\ [][Next]_vars

----------------------------------------------------------------------------
(* The graph under any sequence of calls that leave the optional arguments *)
(* at their defaults: Loop(loop_id, yarn_id), connect_loops(parent, child) *)

PlainCounted == ncalls < MaxPlainCalls /\ ncalls' = ncalls + 1

PlainNext ==
    \/ \E loop_id \in 0..MaxPlainLoopId :
          /\ PlainCounted
          /\ add_loop(loop_id, "yarn", FALSE)
          /\ UNCHANGED <<symbol_table, height>>
    \/ /\ PlainCounted
       /\ add_yarn("yarn")
       /\ UNCHANGED <<symbol_table, height>>
    \/ \E p \in 0..MaxPlainLoopId, c \in 0..MaxPlainLoopId :
          /\ PlainCounted
          /\ connect_loops(p, c, DefaultAttributes, NoPosition)
          /\ UNCHANGED <<symbol_table, height>>
    \/ /\ PlainCounted
       /\ get_courses
       /\ UNCHANGED <<symbol_table, height>>

PlainSpec == Init /\ [][PlainNext]_vars

----------------------------------------------------------------------------
(* Stitches made between loops of the graph, with every choice of           *)
(* attributes and stack position                                           *)

ConnectCounted == ncalls < MaxConnectCalls /\ ncalls' = ncalls + 1

ConnectNext ==
    \/ \E loop_id \in 0..MaxConnectLoopId :
          /\ ConnectCounted
          /\ add_loop(loop_id, "yarn", FALSE)
          /\ UNCHANGED <<symbol_table, height>>
    \/ /\ ConnectCounted
       /\ add_yarn("yarn")
       /\ UNCHANGED <<symbol_table, height>>
    \/ \E p \in DOMAIN loops, c \in DOMAIN loops, a \in EdgeAttributes,
          k \in StackPositionArgs :
          /\ ConnectCounted
          /\ connect_loops(p, c, a, k)
          /\ UNCHANGED <<symbol_table, height>>

ConnectSpec == Init /\ [][ConnectNext]_vars

----------------------------------------------------------------------------
(* The graph as an interpreter knits it: the yarn first, then each loop    *)
(* under the next id, pulled through loops made before it                  *)

CourseNext ==
    \/ /\ "yarn" \notin DOMAIN yarns
       /\ add_yarn("yarn")
       /\ UNCHANGED <<symbol_table, height, ncalls>>
    \/ /\ "yarn" \in DOMAIN yarns
       /\ last_loop_id < MaxCourseLoopId
       /\ add_loop(last_loop_id + 1, "yarn", FALSE)
       /\ UNCHANGED <<symbol_table, height, ncalls>>
    \/ \E p \in DOMAIN loops :
          /\ p < last_loop_id
          /\ p \notin Range(loops[last_loop_id].parent_loops)
          /\ Len(loops[last_loop_id].parent_loops) < MaxParents
          /\ connect_loops(p, last_loop_id, DefaultAttributes, NoPosition)
          /\ UNCHANGED <<symbol_table, height, ncalls>>
    \/ /\ get_courses
       /\ UNCHANGED <<symbol_table, height, ncalls>>

CourseSpec == Init /\ [][CourseNext]_vars

----------------------------------------------------------------------------
(* The stockinette swatch of test_stst: Width loops a row, loop Width*r + c *)
(* pulled through loop Width*(r-1) + c                                     *)

Width == 4

StInit ==
    /\ GraphInit
    /\ symbol_table = EmptyMap
    /\ call = [op |-> "__init__"]
    /\ raised = "none"
    /\ returned = None
    /\ height \in 1..MaxHeight
    /\ ncalls = 0

\* every loop above the first row has its parent: a row is begun when the rows
\* below it are finished
RowsConnected ==
    \A c \in DOMAIN loops : c >= Width => loops[c].parent_loops = <<c - Width>>

\* every loop of the swatch is made and connected
SwatchComplete ==
    /\ DOMAIN loops = 0..(Width * height - 1)
    /\ RowsConnected

StNext ==
    \/ /\ "yarn" \notin DOMAIN yarns
       /\ add_yarn("yarn")
       /\ UNCHANGED <<symbol_table, height, ncalls>>
    \/ /\ "yarn" \in DOMAIN yarns
       /\ last_loop_id + 1 < Width * height
       /\ (last_loop_id + 1) % Width = 0 => RowsConnected
       /\ add_loop(last_loop_id + 1, "yarn", FALSE)
       /\ UNCHANGED <<symbol_table, height, ncalls>>
    \/ \E c \in DOMAIN loops :
          /\ c >= Width
          /\ loops[c].parent_loops = <<>>
          /\ connect_loops(c - Width, c, DefaultAttributes, NoPosition)
          /\ UNCHANGED <<symbol_table, height, ncalls>>
    \/ /\ SwatchComplete
       /\ get_courses
       /\ UNCHANGED <<symbol_table, height, ncalls>>

StSpec == StInit /\ [][StNext]_vars

----------------------------------------------------------------------------
(* Symbol_Table *)

\* a name is the sequence of its characters
UpperLetters == <<"A", "B", "C", "D", "E", "F", "G", "H", "I", "J", "K", "L", "M",
                  "N", "O", "P", "Q", "R", "S", "T", "U", "V", "W", "X", "Y", "Z">>
LowerLetters == <<"a", "b", "c", "d", "e", "f", "g", "h", "i", "j", "k", "l", "m",
                  "n", "o", "p", "q", "r", "s", "t", "u", "v", "w", "x", "y", "z">>

\* str.lower() of one character
LowerChar(ch) ==
    IF \E i \in DOMAIN UpperLetters : UpperLetters[i] = ch
    THEN LowerLetters[CHOOSE i \in DOMAIN UpperLetters : UpperLetters[i] = ch]
    ELSE ch

\* str.lower()
lower(name) == [i \in DOMAIN name |-> LowerChar(name[i])]

\* str(n) for the loop counts of a cable
Digit(n) == <<"0", "1", "2", "3", "4", "5", "6", "7", "8", "9">>[n + 1]

Stitch_Definition(pull_direction, cabling_depth, offset_to_parent_loops, child_loops) ==
    [kind |-> "Stitch_Definition", pull_direction |-> pull_direction,
     cabling_depth |-> cabling_depth, offset_to_parent_loops |-> offset_to_parent_loops,
     child_loops |-> child_loops]

Cable_Definition(left_crossing_loops, right_crossing_loops, left_crossing_pull_direction, right_crossing_pull_direction, cable_lean) ==
    [kind |-> "Cable_Definition", left_crossing_loops |-> left_crossing_loops,
     right_crossing_loops |-> right_crossing_loops,
     left_crossing_pull_direction |-> left_crossing_pull_direction,
     right_crossing_pull_direction |-> right_crossing_pull_direction,
     cable_lean |-> cable_lean]

\* an integer variable of the table
IntValue(n) == [kind |-> "int", value |-> n]

_knit == Stitch_Definition("BtF", 0, <<0>>, 1)
_purl == Stitch_Definition("FtB", 0, <<0>>, 1)
_yo == Stitch_Definition("BtF", 0, <<>>, 1)
_slip == Stitch_Definition("BtF", 0, <<0>>, 0)

\* the dict literal of __init__
BaseStitches ==
    (<<"k">> :> _knit) @@ (<<"p">> :> _purl) @@ (<<"y", "o">> :> _yo) @@
    (<<"s", "l", "i", "p">> :> _slip)

\* the entries _decreases writes
_decreases ==
    (<<"k", "2", "t", "o", "g">> :> Stitch_Definition("BtF", 0, <<0, -1>>, 1)) @@
    (<<"k", "3", "t", "o", "g">> :> Stitch_Definition("BtF", 0, <<0, -1, -2>>, 1)) @@
    (<<"p", "2", "t", "o", "g">> :> Stitch_Definition("FtB", 0, <<0, -1>>, 1)) @@
    (<<"p", "3", "t", "o", "g">> :> Stitch_Definition("FtB", 0, <<0, -1, -2>>, 1)) @@
    (<<"s", "k", "p", "o">> :> Stitch_Definition("BtF", 0, <<0, 1>>, 1)) @@
    (<<"s", "p", "p", "o">> :> Stitch_Definition("FtB", 0, <<0, 1>>, 1)) @@
    (<<"s", "2", "k", "p", "o">> :> Stitch_Definition("BtF", 0, <<0, 1, 2>>, 1)) @@
    (<<"s", "2", "p", "p", "o">> :> Stitch_Definition("FtB", 0, <<0, 1, 2>>, 1)) @@
    (<<"s", "k", "2", "p", "o">> :> Stitch_Definition("BtF", 0, <<-1, 0, 1>>, 1)) @@
    (<<"s", "p", "2", "p", "o">> :> Stitch_Definition("FtB", 0, <<-1, 0, 1>>, 1))

CableSides == {"l", "r"}
CableSizes == 1..3
CablePurls == {<<"p">>, <<>>}

cable_name(cross_side, left_st_num, left_purl, right_st_num, right_purl) ==
    <<cross_side, "c", Digit(left_st_num)>> \o left_purl \o
    <<"|", Digit(right_st_num)>> \o right_purl

CableChoices == CableSides \X CableSizes \X CablePurls \X CableSizes \X CablePurls

\* the entries _cables writes
_cables ==
    LET names == { cable_name(ch[1], ch[2], ch[3], ch[4], ch[5]) : ch \in CableChoices }
        choice(name) == CHOOSE ch \in CableChoices :
                            cable_name(ch[1], ch[2], ch[3], ch[4], ch[5]) = name
    IN  [name \in names |->
            LET ch == choice(name) IN
            Cable_Definition(ch[2], ch[4],
                             IF ch[3] = <<"p">> THEN "FtB" ELSE "BtF",
                             IF ch[5] = <<"p">> THEN "FtB" ELSE "BtF",
                             IF ch[1] = "l" THEN "Left" ELSE "Right")]

current_row == <<"c", "u", "r", "r", "e", "n", "t", "_", "r", "o", "w">>

\* Symbol_Table.__init__: a later write replaces an earlier one under the same key
SymbolTableInit ==
    (current_row :> IntValue(0)) @@ _cables @@ _decreases @@ BaseStitches

\* SetItemKey with the key left as it was given
SetItemKeyAsGiven(key) == key

\* the key __setitem__ writes under
SetItemKey(key) == lower(key)

\* the key __getitem__ reads
GetItemKey(item) == lower(item)

\* item in table
Contains(item) == lower(item) \in DOMAIN symbol_table

\* table[item], for an item the table holds
GetItem(item) == symbol_table[GetItemKey(item)]

__setitem__(key, value) ==
    /\ call' = [op |-> "__setitem__", key |-> key, value |-> value]
    /\ symbol_table' = DictSet(symbol_table, SetItemKey(key), value)
    /\ raised' = "none"
    /\ returned' = None

__contains__(item) ==
    /\ call' = [op |-> "__contains__", item |-> item]
    /\ raised' = "none"
    /\ returned' = [value |-> Contains(item)]
    /\ UNCHANGED symbol_table

__getitem__(item) ==
    /\ call' = [op |-> "__getitem__", item |-> item]
    /\ IF GetItemKey(item) \in DOMAIN symbol_table
       THEN raised' = "none" /\ returned' = [value |-> GetItem(item)]
       ELSE raised' = "KeyError" /\ returned' = None
    /\ UNCHANGED symbol_table

\* the names the calls of the model use: every name of 1..MaxNameLen characters
NameChars == {"k", "K", "x", "X"}
RECURSIVE NamesOfLen(_)
NamesOfLen(n) ==
    IF n = 0 THEN {<<>>}
    ELSE { Append(name, ch) : name \in NamesOfLen(n - 1), ch \in NameChars }
SymbolNames == UNION { NamesOfLen(n) : n \in 1..MaxNameLen }

\* the values the assignments of the model use
SymbolValues == {IntValue(1), _purl}

SymInit ==
    /\ GraphInit
    /\ symbol_table = SymbolTableInit
    /\ call = [op |-> "__init__"]
    /\ raised = "none"
    /\ returned = None
    /\ height = 0
    /\ ncalls = 0

SymCounted == ncalls < MaxSymCalls /\ ncalls' = ncalls + 1

SymNext ==
    \/ \E key \in SymbolNames, value \in SymbolValues :
          /\ SymCounted
          /\ __setitem__(key, value)
          /\ UNCHANGED <<graph_vars, height>>
    \/ \E item \in SymbolNames :
          /\ SymCounted
          /\ __contains__(item)
          /\ UNCHANGED <<graph_vars, height>>
    \/ \E item \in SymbolNames :
          /\ SymCounted
          /\ __getitem__(item)
          /\ UNCHANGED <<graph_vars, height>>

SymSpec == SymInit /\ [][SymNext]_vars

----------------------------------------------------------------------------
(* Properties of the graph *)

\* the loop ids are exactly 0..last_loop_id
Dense == DOMAIN loops = 0..last_loop_id

\* the latest call was get_courses and it returned
CoursesReturned == call.op = "get_courses" /\ raised = "none"

course(loop_id) == returned.loop_ids_to_course[loop_id]

Count(seq, x) == Cardinality({ i \in DOMAIN seq : seq[i] = x })

\* x is at index k of the Python list seq (a negative k counts from the end)
AtIndex(seq, k, x) ==
    /\ -Len(seq) <= k /\ k < Len(seq)
    /\ seq[(IF k < 0 THEN k + Len(seq) ELSE k) + 1] = x

\* C1 as claimed: on a dense graph, get_courses never puts a loop in the course of
\* one of its parents.
C1_NoParentInSameCourse ==
    (CoursesReturned /\ Dense) =>
        \A c \in DOMAIN loops : \A p \in Range(loops[c].parent_loops) :
            course(c) # course(p)

\* C1 amended: on a dense graph, get_courses never puts a loop in the course of a
\* parent whose id is smaller than the loop's own.
C1_NoEarlierParentInSameCourse ==
    (CoursesReturned /\ Dense) =>
        \A c \in DOMAIN loops : \A p \in Range(loops[c].parent_loops) :
            p < c => course(c) # course(p)

C1_Witness ==
    /\ CoursesReturned /\ Dense
    /\ \E c \in DOMAIN loops : \E p \in Range(loops[c].parent_loops) : p < c

\* C2 as claimed: add_loop of a loop whose yarn is registered appends
\* (loop id, twisted flag) to the end of that yarn's sequence.
C2_AddLoopAppendsToYarn ==
    [][ (call'.op = "add_loop" /\ call'.yarn_id \in DOMAIN yarns) =>
            /\ call'.yarn_id \in DOMAIN yarns'
            /\ yarns'[call'.yarn_id] =
                   Append(yarns[call'.yarn_id], <<call'.loop_id, call'.is_twisted>>) ]_vars

\* C3 as claimed: add_loop with an id already in the graph raises the duplicate-id
\* error and leaves the loop mapping, the nodes and last_loop_id as they were.
C3_DuplicateLoopRejected ==
    [][ (call'.op = "add_loop" /\ call'.loop_id \in DOMAIN loops) =>
            /\ raised' # "none"
            /\ loops' = loops
            /\ graph_nodes' = graph_nodes
            /\ last_loop_id' = last_loop_id ]_vars

\* C4 as claimed: connect_loops with a parent or child that is no loop raises and
\* leaves the graph unchanged.
C4_UnknownLoopLeavesGraph ==
    [][ (/\ call'.op = "connect_loops"
         /\ \/ call'.parent_loop_id \notin DOMAIN loops
            \/ call'.child_loop_id \notin DOMAIN loops) =>
            /\ raised' # "none"
            /\ graph_vars' = graph_vars ]_vars

\* C5 as claimed: the loop ids of the graph are always exactly 0..last_loop_id.
C5_LoopIdsDense == Dense

\* C6 as claimed: after connect_loops with stack_position k on existing loops the
\* child's stack holds the parent exactly once, at index k, and the edge carries
\* the attributes of the call.
C6_ParentOnceAtPosition ==
    (call.op = "connect_loops" /\ raised = "none" /\ call.stack_position # NoPosition) =>
        LET stack == loops[call.child_loop_id].parent_loops IN
        /\ Count(stack, call.parent_loop_id) = 1
        /\ AtIndex(stack, call.stack_position[1], call.parent_loop_id)
        /\ graph_edges[<<call.parent_loop_id, call.child_loop_id>>] = call.attributes

\* C6 amended: when the parent is not yet in the child's stack and
\* 0 <= k <= the length of that stack, connect_loops with stack_position k on
\* existing loops leaves the parent exactly once in the stack, at index k, and the
\* edge carries the attributes of the call.
C6_NewParentAtPositionInRange ==
    [][ (/\ call'.op = "connect_loops" /\ raised' = "none"
         /\ call'.stack_position # NoPosition
         /\ 0 <= call'.stack_position[1]
         /\ call'.stack_position[1] <= Len(loops[call'.child_loop_id].parent_loops)
         /\ call'.parent_loop_id \notin Range(loops[call'.child_loop_id].parent_loops)) =>
            LET stack == loops'[call'.child_loop_id].parent_loops IN
            /\ Count(stack, call'.parent_loop_id) = 1
            /\ AtIndex(stack, call'.stack_position[1], call'.parent_loop_id)
            /\ graph_edges'[<<call'.parent_loop_id, call'.child_loop_id>>] = call'.attributes
      ]_vars

\* a parent was just put under another parent: stack position 0 of a stack of one
C6_Witness ==
    /\ call.op = "connect_loops" /\ raised = "none"
    /\ call.stack_position = <<0>>
    /\ LET stack == loops[call.child_loop_id].parent_loops IN
         /\ Len(stack) = 2
         /\ stack[1] = call.parent_loop_id
         /\ stack[2] # call.parent_loop_id

\* the loops that are 2-into-1 decreases of two loops scanned before them, both in
\* the same course
DecreasesOfOneCourse ==
    { c \in DOMAIN loops :
        LET stack == loops[c].parent_loops IN
        /\ Len(stack) = 2 /\ stack[1] # stack[2]
        /\ stack[1] < c /\ stack[2] < c
        /\ course(stack[1]) = course(stack[2]) }

\* C7 as claimed: on a dense graph, a loop with two parents that are both already
\* in course i is put in course i+1.
C7_DecreaseInNextCourse ==
    (CoursesReturned /\ Dense) =>
        \A c \in DecreasesOfOneCourse :
            course(c) = course(loops[c].parent_loops[1]) + 1

\* C7 amended: on a dense graph, a loop with two parents that are both already in
\* course i is put in course i+1 or a later one, and in course i+1 when the loop
\* scanned just before it is in course i.
C7_DecreaseAfterParentsCourse ==
    (CoursesReturned /\ Dense) =>
        \A c \in DecreasesOfOneCourse :
            LET i == course(loops[c].parent_loops[1]) IN
            /\ course(c) >= i + 1
            /\ course(c - 1) = i => course(c) = i + 1

C7_Witness ==
    /\ CoursesReturned /\ Dense
    /\ \E c \in DecreasesOfOneCourse :
         /\ course(c - 1) = course(loops[c].parent_loops[1])
         /\ course(c) = 2

\* C8: get_courses of the finished Width-wide stockinette swatch of height H
\* returns the H courses 0..H-1, course r being <<Width*r, ..., Width*r + Width-1>>,
\* and maps loop Width*r + c to course r.
C8_StockinetteCourses ==
    (call.op = "get_courses") =>
        /\ raised = "none"
        /\ DOMAIN returned.course_ids_to_loop_id_list = 0..(height - 1)
        /\ \A r \in 0..(height - 1) :
              returned.course_ids_to_loop_id_list[r] = [i \in 1..Width |-> Width * r + i - 1]
        /\ DOMAIN returned.loop_ids_to_course = 0..(Width * height - 1)
        /\ \A r \in 0..(height - 1) : \A c \in 0..(Width - 1) :
              course(Width * r + c) = r

C8_Witness ==
    /\ CoursesReturned /\ SwatchComplete
    /\ height >= 3
    /\ Cardinality(DOMAIN loops) = Width * height

IsIncreasing(seq) == \A i \in DOMAIN seq : \A j \in DOMAIN seq : i < j => seq[i] < seq[j]

\* C10: on a dense graph get_courses returns, after one iteration per loop, a
\* loop-to-course map whose keys are the loop ids; the course lists partition the
\* loop ids, each in increasing order; course numbers do not decrease with the
\* loop id and are 0..max without a gap.  Without a loop 0 it returns two empty maps.
C10_CoursesTotalAndOrdered ==
    (call.op = "get_courses") =>
        /\ Dense =>
              /\ raised = "none"
              /\ returned.iterations = Cardinality(DOMAIN loops)
              /\ DOMAIN returned.loop_ids_to_course = DOMAIN loops
              /\ LET lists == returned.course_ids_to_loop_id_list IN
                  /\ \A id \in DOMAIN loops :
                        { n \in DOMAIN lists : id \in Range(lists[n]) } = {course(id)}
                  /\ \A n \in DOMAIN lists :
                        /\ lists[n] # <<>>
                        /\ Range(lists[n]) \subseteq DOMAIN loops
                        /\ IsIncreasing(lists[n])
                  /\ DOMAIN lists = 0..(Cardinality(DOMAIN lists) - 1)
              /\ \A a \in DOMAIN loops : \A b \in DOMAIN loops :
                    a < b => course(a) <= course(b)
        /\ 0 \notin DOMAIN loops =>
              /\ raised = "none"
              /\ returned.loop_ids_to_course = EmptyMap
              /\ returned.course_ids_to_loop_id_list = EmptyMap

C10_Witness ==
    /\ CoursesReturned /\ Dense
    /\ Cardinality(DOMAIN loops) = 3
    /\ Cardinality(DOMAIN returned.course_ids_to_loop_id_list) = 2

----------------------------------------------------------------------------
(* Properties of the symbol table *)

\* a and b are one letter, in either case
SameLetter(a, b) ==
    \/ a = b
    \/ \E i \in DOMAIN UpperLetters : {a, b} = {UpperLetters[i], LowerLetters[i]}

\* the names n and m differ only in letter case
SameUpToCase(n, m) ==
    /\ Len(n) = Len(m)
    /\ \A i \in DOMAIN n : SameLetter(n[i], m[i])

\* C9: names that differ only in letter case are in the table together and denote
\* the same stored value, and a value assigned under one of them is what a lookup
\* under any of them gives.
C9_CaseInsensitive ==
    /\ \A n \in SymbolNames : \A m \in SymbolNames :
          SameUpToCase(n, m) =>
              /\ Contains(n) = Contains(m)
              /\ Contains(n) => GetItem(n) = GetItem(m)
    /\ call.op = "__setitem__" =>
          \A n \in SymbolNames :
              SameUpToCase(n, call.key) => Contains(n) /\ GetItem(n) = call.value

\* a value was assigned under a name with a capital and the lower-case name has it
C9_Witness ==
    /\ call.op = "__setitem__"
    /\ call.key = <<"K">>
    /\ call.value = IntValue(1)
    /\ GetItem(<<"k">>) = IntValue(1)
    /\ Contains(<<"x">>) /\ Contains(<<"X">>)

====
